---------------------------- MODULE Spec2Model ----------------------------
(***************************************************************************)
(* Occupancy octree of src/src/octree.py with the node counter of          *)
(* src/src/metrics.py and the builder of src/src/mapping.py.               *)
(*                                                                         *)
(* Numbers.  Coordinates and sizes are integers in units of                *)
(* bbox_size / RootSize; RootSize is a power of two large enough that      *)
(* every size / 2 and size / 4 the descent computes is exact, as it is in  *)
(* binary floating point.  log_odds is kept in units of 1/10000:           *)
(* L_OCC = ln(0.7/0.3) = 0.8473, L_FREE = ln(0.4/0.6) = -0.4055.           *)
(*                                                                         *)
(* Objects.  Every OctreeNode ever constructed is an entry of heap; its    *)
(* identity is its index.  A children slot holds a node identity or None.  *)
(* Nodes dropped by an assignment to children stay in heap, unreachable.   *)
(*                                                                         *)
(* Calls.  insert_point is modelled statement by statement; the locals of  *)
(* each caller p are pc[p], node[p], point[p], depth_limit[p], i[p].       *)
(*                                                                         *)
(* Specifications.  Spec, SpecRepeat, SpecUpdates: one caller, statement   *)
(* by statement.  SpecGrid, SpecBuild: the dense grid and a whole build.   *)
(* SpecCalls: whole calls as single steps.  SpecRace: two callers,         *)
(* unsynchronized or serialized.                                           *)
(***************************************************************************)
EXTENDS Integers, Sequences, FiniteSets, TLC

VARIABLES heap, pc, node, point, depth_limit, i, calls, direct,
          input, grid, stage, gk, report

(* the octree and the locals of its callers *)
tvars == <<heap, pc, node, point, depth_limit, i, calls, direct>>

(* the arguments of a build, the DenseVoxelGrid object, the position of the
   driver, the position of _build_grid's loop, the metrics reported *)
gvars == <<input, grid, stage, gk, report>>

vars == <<heap, pc, node, point, depth_limit, i, calls, direct,
          input, grid, stage, gk, report>>

---------------------------------------------------------------------------
(* Bounds of the model *)

MaxDepth == 2

MaxCalls == 2

MaxRepeat == 6

MaxUpdates == 13

MaxPts == 3

---------------------------------------------------------------------------
(* Program constants, octree.py lines 4-7, in units of 1/10000 *)

L_OCC == 8473

L_FREE == -4055

CLAMP_MAX == 35000

CLAMP_MIN == -35000

(* Python's None in a children slot; node identities start at 1 *)
None == 0

(* the root is the first node constructed (mapping.py line 11) *)
root == 1

(* bbox_size of build_octree, in coordinate units *)
RootSize == 2 ^ (MaxDepth + 2)

(* bbox_center of build_octree *)
RootCenter == <<0, 0, 0>>

(* callers of insert_point, each with its own locals *)
Procs == {1, 2}

(* build_octree is the one caller of a sequential build *)
SeqProcs == {1}

(* depth limits a caller may pass; range() accepts a negative one *)
Depths == (-1) .. MaxDepth

(* points a caller may pass (ties with centers, all sign patterns, one
   point outside the root cube) *)
Points ==
  { <<1, 1, 1>>, <<0, 0, 0>>, <<3, -3, -5>>, <<-5, 4, 1>>, <<5, 5, -3>>,
    <<-9, -2, 6>> }

---------------------------------------------------------------------------
(* OctreeNode.__init__ *)
OctreeNode(center, size) ==
  [ center   |-> center,
    size     |-> size,
    children |-> [k \in 1..8 |-> None],
    log_odds |-> 0,
    is_leaf  |-> TRUE ]

(* offsets[k], k = 0..7, of subdivide: x outermost, z innermost *)
Offset(k, quarter) ==
  << IF (k \div 4) % 2 = 1 THEN quarter ELSE -quarter,
     IF (k \div 2) % 2 = 1 THEN quarter ELSE -quarter,
     IF k % 2 = 1 THEN quarter ELSE -quarter >>

VecAdd(a, b) == << a[1] + b[1], a[2] + b[2], a[3] + b[3] >>

(* subdivide without its last statement "self.is_leaf = False" *)
subdivide_leaf_kept(h, n) ==
  LET half    == h[n].size \div 2
      quarter == h[n].size \div 4
      first   == Len(h) + 1
      kids    == [k \in 1..8 |->
                    OctreeNode(VecAdd(h[n].center, Offset(k - 1, quarter)), half)]
      h2      == h \o kids
  IN  [h2 EXCEPT ![n].children = [k \in 1..8 |-> first + k - 1]]

(* heap after n.subdivide(): 8 new nodes, n's children replaced by them *)
subdivide(h, n) ==
  LET half    == h[n].size \div 2
      quarter == h[n].size \div 4
      first   == Len(h) + 1
      kids    == [k \in 1..8 |->
                    OctreeNode(VecAdd(h[n].center, Offset(k - 1, quarter)), half)]
      h2      == h \o kids
  IN  [h2 EXCEPT ![n].children = [k \in 1..8 |-> first + k - 1],
                 ![n].is_leaf  = FALSE]

(* the clamp with its upper limit forgotten: max(x, CLAMP_MIN) *)
Clamp_lower_only(x) == IF x > CLAMP_MIN THEN x ELSE CLAMP_MIN

(* min(max(x, CLAMP_MIN), CLAMP_MAX) *)
Clamp(x) ==
  LET lo == IF x > CLAMP_MIN THEN x ELSE CLAMP_MIN
  IN  IF lo < CLAMP_MAX THEN lo ELSE CLAMP_MAX

(* update_log_odds with the two increments exchanged *)
update_log_odds_exchanged(h, n, is_occupied) ==
  LET added == IF is_occupied THEN h[n].log_odds + L_FREE
                              ELSE h[n].log_odds + L_OCC
  IN  [h EXCEPT ![n].log_odds = Clamp(added)]

(* update_log_odds clamping before the addition instead of after it *)
update_log_odds_clamp_first(h, n, is_occupied) ==
  [h EXCEPT ![n].log_odds =
     Clamp(h[n].log_odds) + (IF is_occupied THEN L_OCC ELSE L_FREE)]

(* heap after update_log_odds(n, is_occupied) *)
update_log_odds(h, n, is_occupied) ==
  LET added == IF is_occupied THEN h[n].log_odds + L_OCC
                              ELSE h[n].log_odds + L_FREE
  IN  [h EXCEPT ![n].log_odds = Clamp(added)]

(* idx with every comparison turned round: "<" for ">" *)
ChildIndex_less_than(h, n, pt) ==
  (IF pt[1] < h[n].center[1] THEN 1 ELSE 0)
  + 2 * (IF pt[2] < h[n].center[2] THEN 1 ELSE 0)
  + 4 * (IF pt[3] < h[n].center[3] THEN 1 ELSE 0)

(* idx of insert_point: bit 0 from x, bit 1 from y, bit 2 from z *)
ChildIndex(h, n, pt) ==
  (IF pt[1] > h[n].center[1] THEN 1 ELSE 0)
  + 2 * (IF pt[2] > h[n].center[2] THEN 1 ELSE 0)
  + 4 * (IF pt[3] > h[n].center[3] THEN 1 ELSE 0)

(* the loop running depth_limit + 1 times *)
LoopOrUpdate_one_more(done, limit) ==
  IF done <= limit THEN "check" ELSE "update"

(* the test of the for loop: another iteration, or the update *)
LoopOrUpdate(done, limit) == IF done < limit THEN "check" ELSE "update"

---------------------------------------------------------------------------
(* metrics.py *)

(* the children pushed by "for c in node.children: if c is not None" *)
RECURSIVE PushChildren(_, _, _)
PushChildren(stack, ch, k) ==
  IF k > 8 THEN stack
  ELSE PushChildren(IF ch[k] # None THEN Append(stack, ch[k]) ELSE stack,
                    ch, k + 1)

RECURSIVE CountLoop(_, _, _)
CountLoop(h, stack, count) ==
  IF stack = <<>> THEN count
  ELSE LET n    == stack[Len(stack)]
           rest == SubSeq(stack, 1, Len(stack) - 1)
       IN  CountLoop(h,
                     IF ~h[n].is_leaf THEN PushChildren(rest, h[n].children, 1)
                                      ELSE rest,
                     count + 1)

count_octree_nodes(h, r) == CountLoop(h, <<r>>, 0)

(* the occupancy test made before the leaf test: any node with
   log_odds > 0 is counted *)
RECURSIVE OccupiedLoop_any_node(_, _, _)
OccupiedLoop_any_node(h, stack, count) ==
  IF stack = <<>> THEN count
  ELSE LET n    == stack[Len(stack)]
           rest == SubSeq(stack, 1, Len(stack) - 1)
           c2   == IF h[n].log_odds > 0 THEN count + 1 ELSE count
       IN  IF h[n].is_leaf
           THEN OccupiedLoop_any_node(h, rest, c2)
           ELSE OccupiedLoop_any_node(h,
                  PushChildren(rest, h[n].children, 1), c2)

(* the occupancy test "node.log_odds > 0" written as ">= 0" *)
RECURSIVE OccupiedLoop_nonnegative(_, _, _)
OccupiedLoop_nonnegative(h, stack, count) ==
  IF stack = <<>> THEN count
  ELSE LET n    == stack[Len(stack)]
           rest == SubSeq(stack, 1, Len(stack) - 1)
       IN  IF h[n].is_leaf
           THEN OccupiedLoop_nonnegative(h, rest,
                  IF h[n].log_odds >= 0 THEN count + 1 ELSE count)
           ELSE OccupiedLoop_nonnegative(h,
                  PushChildren(rest, h[n].children, 1), count)

RECURSIVE OccupiedLoop(_, _, _)
OccupiedLoop(h, stack, count) ==
  IF stack = <<>> THEN count
  ELSE LET n    == stack[Len(stack)]
           rest == SubSeq(stack, 1, Len(stack) - 1)
       IN  IF h[n].is_leaf
           THEN OccupiedLoop(h, rest,
                             IF h[n].log_odds > 0 THEN count + 1 ELSE count)
           ELSE OccupiedLoop(h, PushChildren(rest, h[n].children, 1), count)

count_octree_occupied_leaves(h, r) == OccupiedLoop(h, <<r>>, 0)

---------------------------------------------------------------------------
(* Initial state: build_octree has constructed the root *)
Init ==
  /\ heap = << OctreeNode(RootCenter, RootSize) >>
  /\ pc = [p \in Procs |-> "idle"]
  /\ node = [p \in Procs |-> root]
  /\ point = [p \in Procs |-> <<0, 0, 0>>]
  /\ depth_limit = [p \in Procs |-> 0]
  /\ i = [p \in Procs |-> 0]
  /\ calls = <<>>
  /\ direct = 0
  /\ input = None
  /\ grid = None
  /\ stage = "octree"
  /\ gk = 0
  /\ report = None

(* no call of insert_point is in progress *)
Idle == \A p \in Procs : pc[p] = "idle"

(* insert_point(root, pt, d) is entered: node = root *)
Call(p, pt, d) ==
  /\ pc[p] = "idle"
  /\ node' = [node EXCEPT ![p] = root]
  /\ point' = [point EXCEPT ![p] = pt]
  /\ depth_limit' = [depth_limit EXCEPT ![p] = d]
  /\ i' = [i EXCEPT ![p] = 0]
  /\ pc' = [pc EXCEPT ![p] = LoopOrUpdate(0, d)]
  /\ calls' = Append(calls, [point |-> pt, depth |-> d])
  /\ UNCHANGED <<heap, direct, gvars>>

(* insert_point subdividing at every level, without the is_leaf test *)
CheckLeaf_always(p) ==
  /\ pc[p] = "check"
  /\ pc' = [pc EXCEPT ![p] = "subdivide"]
  /\ UNCHANGED <<heap, node, point, depth_limit, i, calls, direct, gvars>>

(* "if node.is_leaf:" *)
CheckLeaf(p) ==
  /\ pc[p] = "check"
  /\ pc' = [pc EXCEPT ![p] = IF heap[node[p]].is_leaf THEN "subdivide"
                                                      ELSE "select"]
  /\ UNCHANGED <<heap, node, point, depth_limit, i, calls, direct, gvars>>

(* "node.subdivide()" *)
Subdivide(p) ==
  /\ pc[p] = "subdivide"
  /\ heap' = subdivide(heap, node[p])
  /\ pc' = [pc EXCEPT ![p] = "select"]
  /\ UNCHANGED <<node, point, depth_limit, i, calls, direct, gvars>>

(* "idx = ...; node = node.children[idx]" and the next loop test *)
Select(p) ==
  /\ pc[p] = "select"
  /\ node' = [node EXCEPT ![p] =
                heap[node[p]].children[ChildIndex(heap, node[p], point[p]) + 1]]
  /\ i' = [i EXCEPT ![p] = i[p] + 1]
  /\ pc' = [pc EXCEPT ![p] = LoopOrUpdate(i[p] + 1, depth_limit[p])]
  /\ UNCHANGED <<heap, point, depth_limit, calls, direct, gvars>>

(* "update_log_odds(node, True)" and the return *)
Update(p) ==
  /\ pc[p] = "update"
  /\ heap' = update_log_odds(heap, node[p], TRUE)
  /\ pc' = [pc EXCEPT ![p] = "idle"]
  /\ UNCHANGED <<node, point, depth_limit, i, calls, direct, gvars>>

Step(p) == CheckLeaf(p) \/ Subdivide(p) \/ Select(p) \/ Update(p)

(* Sequential use, as build_octree does: one caller, any points and depth
   limits *)
Next ==
  \E p \in SeqProcs :
    \/ /\ Len(calls) < MaxCalls
       /\ \E pt \in Points, d \in Depths : Call(p, pt, d)
    \/ CheckLeaf(p)
    \/ Subdivide(p)
    \/ Select(p)
    \/ Update(p)

Spec == Init /\ [][Next]_vars

(* The same point inserted again and again with the same depth limit *)
NextRepeat ==
  \E p \in SeqProcs :
    \/ /\ Len(calls) < MaxRepeat
       /\ \E pt \in Points, d \in Depths :
            /\ calls # <<>> => (pt = calls[1].point /\ d = calls[1].depth)
            /\ Call(p, pt, d)
    \/ CheckLeaf(p)
    \/ Subdivide(p)
    \/ Select(p)
    \/ Update(p)

SpecRepeat == Init /\ [][NextRepeat]_vars

(* update_log_odds(n, is_occupied) called directly, between insertions, on
   the root or on the node the last insertion reached *)
DirectUpdate(n, is_occupied) ==
  /\ Idle
  /\ direct < MaxUpdates
  /\ heap' = update_log_odds(heap, n, is_occupied)
  /\ direct' = direct + 1
  /\ UNCHANGED <<pc, node, point, depth_limit, i, calls, gvars>>

(* One insertion, and direct updates of either kind in any order *)
NextUpdates ==
  \/ \E p \in SeqProcs :
       \/ /\ calls = <<>>
          /\ \E pt \in Points, d \in Depths : Call(p, pt, d)
       \/ CheckLeaf(p)
       \/ Subdivide(p)
       \/ Select(p)
       \/ Update(p)
  \/ \E n \in {root, node[1]}, is_occupied \in BOOLEAN :
       DirectUpdate(n, is_occupied)

SpecUpdates == Init /\ [][NextUpdates]_vars

---------------------------------------------------------------------------
(* compare.py: DenseVoxelGrid; metrics.py: bbox, estimate_octree_memory;
   main.py: run_experiment.

   In the specifications of this section a coordinate 1.0 is Unit model
   units, so that the halves and quarters of a root of size 10.0 and the
   midpoints of the points below are exact. *)

Unit == 2 ^ (MaxDepth + 2)

(* bbox_size = 10.0, the default of build_octree *)
BboxSize == 10

(* an optional argument: left at its default None, or supplied *)
Absent == <<>>

Given(x) == <<x>>

(* a point given in halves: <<2, 2, 2>> is (1.0, 1.0, 1.0) *)
Halves(p) == << p[1] * (Unit \div 2), p[2] * (Unit \div 2), p[3] * (Unit \div 2) >>

(* (1,1,1); (1.5,1.5,1.5) in the same cell of edge 1.0; a point just below
   the minimum corner of the region; one beyond its maximum corner; one in
   another octant *)
GridPoints ==
  { Halves(<<2, 2, 2>>), Halves(<<3, 3, 3>>), Halves(<<-11, 0, 0>>),
    Halves(<<11, -4, 6>>), Halves(<<-2, 4, -6>>) }

(* voxel_size 1.0, which divides bbox_size, and 3.0, which does not *)
VoxelSizes == { Unit, 3 * Unit }

PointSeqs == UNION { [1..k -> GridPoints] : k \in 0..MaxPts }

(* np.min(points, axis=0) / np.max(points, axis=0): a zero-size array has
   no minimum and the reduction raises ValueError *)
AxisValues(points, ax) == { points[j][ax] : j \in 1..Len(points) }

SetMin(S) == CHOOSE m \in S : \A x \in S : m <= x

SetMax(S) == CHOOSE m \in S : \A x \in S : m >= x

(* the reduction returning zeros for a zero-size array *)
NpReduce_zero_when_empty(points, kind) ==
  IF points = <<>> THEN [ok |-> TRUE, value |-> <<0, 0, 0>>]
  ELSE [ok |-> TRUE,
        value |-> [ax \in 1..3 |->
                     IF kind = "min" THEN SetMin(AxisValues(points, ax))
                                     ELSE SetMax(AxisValues(points, ax))]]

NpReduce(points, kind) ==
  IF points = <<>> THEN [ok |-> FALSE, error |-> "ValueError"]
  ELSE [ok |-> TRUE,
        value |-> [ax \in 1..3 |->
                     IF kind = "min" THEN SetMin(AxisValues(points, ax))
                                     ELSE SetMax(AxisValues(points, ax))]]

np_min(points) == NpReduce(points, "min")

np_max(points) == NpReduce(points, "max")

(* metrics.bbox(points): (mins, maxs, size), or the exception of np.min *)
bbox(points) ==
  LET mins == np_min(points)
      maxs == np_max(points)
  IN  IF ~mins.ok THEN mins
      ELSE IF ~maxs.ok THEN maxs
      ELSE [ok |-> TRUE, mins |-> mins.value, maxs |-> maxs.value,
            size |-> [ax \in 1..3 |-> maxs.value[ax] - mins.value[ax]]]

(* a Python dict as a function on its keys *)
EmptyDict == [k \in {} |-> 0]

DictGet(d, k, default) == IF k \in DOMAIN d THEN d[k] ELSE default

DictSet(d, k, v) == [x \in (DOMAIN d) \cup {k} |-> IF x = k THEN v ELSE d[x]]

(* DenseVoxelGrid.__init__ up to the call of _build_grid *)
DenseVoxelGridInit(points, voxel_size, bbox_center, bbox_size) ==
  LET computed == bbox_center = Absent \/ bbox_size = Absent
      mins     == np_min(points)
      maxs     == np_max(points)
      center   == IF computed
                  THEN [ax \in 1..3 |->
                          (mins.value[ax] + maxs.value[ax]) \div 2]
                  ELSE bbox_center[1]
      size     == IF computed
                  THEN SetMax({ maxs.value[ax] - mins.value[ax] : ax \in 1..3 })
                  ELSE bbox_size[1]
      half     == size \div 2
  IN  IF computed /\ ~mins.ok THEN mins
      ELSE IF computed /\ ~maxs.ok THEN maxs
      ELSE [ok |-> TRUE,
            grid |-> [ voxel_size  |-> voxel_size,
                       voxels      |-> EmptyDict,
                       bbox_center |-> center,
                       bbox_size   |-> size,
                       grid_min    |-> [ax \in 1..3 |-> center[ax] - half],
                       grid_max    |-> [ax \in 1..3 |-> center[ax] + half] ]]

(* int() truncation toward zero in place of np.floor *)
FloorQuotient_truncating(a, b) ==
  IF a >= 0 THEN a \div b ELSE -((-a) \div b)

(* np.floor(a / b) for b > 0 *)
FloorQuotient(a, b) == a \div b

(* the index taken from the point itself, grid_min not subtracted *)
point_to_voxel_index_no_offset(g, pt) ==
  [ax \in 1..3 |-> FloorQuotient(pt[ax], g.voxel_size)]

(* _point_to_voxel_index *)
point_to_voxel_index(g, pt) ==
  [ax \in 1..3 |-> FloorQuotient(pt[ax] - g.grid_min[ax], g.voxel_size)]

(* the loop body storing 1 instead of the incremented count *)
build_grid_step_overwrite(g, pt) ==
  [g EXCEPT !.voxels = DictSet(@, point_to_voxel_index(g, pt), 1)]

(* the loop body skipping a point outside [grid_min, grid_max] *)
build_grid_step_clipping(g, pt) ==
  LET voxel_idx == point_to_voxel_index(g, pt)
  IN  IF \E ax \in 1..3 : pt[ax] < g.grid_min[ax] \/ pt[ax] > g.grid_max[ax]
      THEN g
      ELSE [g EXCEPT
              !.voxels = DictSet(@, voxel_idx, DictGet(@, voxel_idx, 0) + 1)]

(* the loop body counting from 0: get(voxel_idx, -1) + 1 *)
build_grid_step_zero_based(g, pt) ==
  LET voxel_idx == point_to_voxel_index(g, pt)
  IN  [g EXCEPT !.voxels = DictSet(@, voxel_idx, DictGet(@, voxel_idx, -1) + 1)]

(* one iteration of _build_grid *)
build_grid_step(g, pt) ==
  LET voxel_idx == point_to_voxel_index(g, pt)
  IN  [g EXCEPT !.voxels = DictSet(@, voxel_idx, DictGet(@, voxel_idx, 0) + 1)]

get_voxel_count(g) == Cardinality(DOMAIN g.voxels)

RECURSIVE SumOver(_, _)
SumOver(d, keys) ==
  IF keys = {} THEN 0
  ELSE LET k == CHOOSE x \in keys : TRUE
       IN  d[k] + SumOver(d, keys \ {k})

get_total_points(g) == SumOver(g.voxels, DOMAIN g.voxels)

(* the theoretical dense cell count reported as this structure's memory *)
estimate_memory_bytes_dense(g) ==
  LET n_side == -((-g.bbox_size) \div g.voxel_size)
  IN  n_side * n_side * n_side * 50

estimate_memory_bytes(g) == Cardinality(DOMAIN g.voxels) * 50

estimate_octree_memory(h, r) == count_octree_nodes(h, r) * 200

(* _build_grid as a whole: the iterations k, k + 1, ... over points *)
RECURSIVE build_grid(_, _, _)
build_grid(g, points, k) ==
  IF k > Len(points) THEN g
  ELSE build_grid(build_grid_step(g, points[k]), points, k + 1)

(* DenseVoxelGrid(points, voxel_size, bbox_center, bbox_size) as a whole *)
DenseVoxelGrid(points, voxel_size, bbox_center, bbox_size) ==
  LET r == DenseVoxelGridInit(points, voxel_size, bbox_center, bbox_size)
  IN  IF r.ok THEN [ok |-> TRUE, grid |-> build_grid(r.grid, points, 1)]
      ELSE r

(* insert_point as a whole, from the loop test after `done` iterations *)
RECURSIVE Descend(_, _, _, _, _)
Descend(h, n, pt, done, limit) ==
  IF LoopOrUpdate(done, limit) = "update" THEN update_log_odds(h, n, TRUE)
  ELSE LET h1 == IF h[n].is_leaf THEN subdivide(h, n) ELSE h
       IN  Descend(h1, h1[n].children[ChildIndex(h1, n, pt) + 1], pt,
                   done + 1, limit)

insert_point(h, r, pt, d) == Descend(h, r, pt, 0, d)

RECURSIVE InsertAll(_, _, _, _)
InsertAll(h, points, k, d) ==
  IF k > Len(points) THEN h
  ELSE InsertAll(insert_point(h, root, points[k], d), points, k + 1, d)

(* build_octree(points, depth, bbox_center, bbox_size): the heap it leaves *)
build_octree(points, d, bbox_center, bbox_size) ==
  InsertAll(<< OctreeNode(bbox_center, bbox_size) >>, points, 1, d)

(* DenseVoxelGrid(points, ...) is called: __init__ up to _build_grid, or
   the exception that ends it *)
Construct ==
  /\ stage = "new"
  /\ LET r == DenseVoxelGridInit(input.pts, input.voxel_size,
                                 input.bbox_center, input.bbox_size)
     IN  IF r.ok
         THEN /\ grid' = r.grid
              /\ stage' = IF Len(input.pts) > 0 THEN "build" ELSE "done"
         ELSE /\ grid' = grid
              /\ stage' = r.error
  /\ gk' = 0
  /\ UNCHANGED <<tvars, input, report>>

(* one iteration of "for point in points" of _build_grid *)
GridInsert ==
  /\ stage = "build"
  /\ grid' = build_grid_step(grid, input.pts[gk + 1])
  /\ gk' = gk + 1
  /\ stage' = IF gk + 1 < Len(input.pts) THEN "build" ELSE "done"
  /\ UNCHANGED <<tvars, input, report>>

(* run_experiment reads the grid's metrics (main.py 68-69) *)
ReportGrid ==
  /\ stage = "done"
  /\ report' = [ voxel_count   |-> get_voxel_count(grid),
                 dense_memory  |-> estimate_memory_bytes(grid),
                 n_nodes       |-> 0,
                 n_occ         |-> 0,
                 octree_memory |-> 0 ]
  /\ stage' = "octree"
  /\ UNCHANGED <<tvars, input, grid, gk>>

(* build_octree: the next insert_point of "for p in points" *)
BuildCall(p) ==
  /\ stage = "octree"
  /\ Len(calls) < Len(input.pts)
  /\ Call(p, input.pts[Len(calls) + 1], input.depth)

(* run_experiment reads the octree's metrics (main.py 96-98) *)
ReportOctree ==
  /\ stage = "octree"
  /\ Idle
  /\ Len(calls) = Len(input.pts)
  /\ report' = [report EXCEPT
                  !.n_nodes       = count_octree_nodes(heap, root),
                  !.n_occ         = count_octree_occupied_leaves(heap, root),
                  !.octree_memory = estimate_octree_memory(heap, root)]
  /\ stage' = "end"
  /\ UNCHANGED <<tvars, input, grid, gk>>

(* The dense grid alone, with and without a supplied bounding region *)
InitGrid ==
  /\ heap = << OctreeNode(RootCenter, BboxSize * Unit) >>
  /\ pc = [p \in Procs |-> "idle"]
  /\ node = [p \in Procs |-> root]
  /\ point = [p \in Procs |-> <<0, 0, 0>>]
  /\ depth_limit = [p \in Procs |-> 0]
  /\ i = [p \in Procs |-> 0]
  /\ calls = <<>>
  /\ direct = 0
  /\ input \in [ pts         : PointSeqs,
                 depth       : {0},
                 voxel_size  : VoxelSizes,
                 bbox_center : {Absent, Given(RootCenter)},
                 bbox_size   : {Absent, Given(BboxSize * Unit)} ]
  /\ grid = None
  /\ stage = "new"
  /\ gk = 0
  /\ report = None

NextGrid == Construct \/ GridInsert

SpecGrid == InitGrid /\ [][NextGrid]_vars

(* run_experiment: the grid, then the octree, from the same points and the
   same bounding region *)
InitBuild ==
  /\ heap = << OctreeNode(RootCenter, BboxSize * Unit) >>
  /\ pc = [p \in Procs |-> "idle"]
  /\ node = [p \in Procs |-> root]
  /\ point = [p \in Procs |-> <<0, 0, 0>>]
  /\ depth_limit = [p \in Procs |-> 0]
  /\ i = [p \in Procs |-> 0]
  /\ calls = <<>>
  /\ direct = 0
  /\ input \in [ pts         : PointSeqs,
                 depth       : 0..MaxDepth,
                 voxel_size  : VoxelSizes,
                 bbox_center : {Given(RootCenter)},
                 bbox_size   : {Given(BboxSize * Unit)} ]
  /\ grid = None
  /\ stage = "new"
  /\ gk = 0
  /\ report = None

NextBuild ==
  \/ Construct
  \/ GridInsert
  \/ ReportGrid
  \/ ReportOctree
  \/ \E p \in SeqProcs :
       \/ BuildCall(p)
       \/ CheckLeaf(p)
       \/ Subdivide(p)
       \/ Select(p)
       \/ Update(p)

SpecBuild == InitBuild /\ [][NextBuild]_vars

---------------------------------------------------------------------------
(* Vocabulary of the properties *)

AllNodes(h) == 1 .. Len(h)

ChildrenOf(h, n) == { h[n].children[k] : k \in 1..8 } \ {None}

RECURSIVE ReachFrom(_, _, _)
ReachFrom(h, frontier, seen) ==
  IF frontier = {} THEN seen
  ELSE LET next == (UNION { ChildrenOf(h, n) : n \in frontier }) \ seen
       IN  ReachFrom(h, next, seen \cup next)

(* the nodes of the tree: those the root leads to *)
Reachable(h) == ReachFrom(h, {root}, {root})

RECURSIVE NodesAtDepth(_, _)
NodesAtDepth(h, k) ==
  IF k = 0 THEN {root}
  ELSE UNION { ChildrenOf(h, n) : n \in NodesAtDepth(h, k - 1) }

(* center, size, leaf flag and children of every node of the tree *)
Shape(h) ==
  [ n \in Reachable(h) |->
      << h[n].center, h[n].size, h[n].is_leaf, h[n].children >> ]

(* caller p executes "node = node.children[idx]" in this step *)
Selects(p) == pc[p] = "select" /\ pc'[p] # "select"

(* caller p executes "update_log_odds(node, True)" in this step *)
Updates(p) == pc[p] = "update" /\ pc'[p] = "idle"

(* every call so far passed the same depth limit and a different point *)
SameDepthDistinctPoints ==
  /\ Len(calls) >= 1
  /\ \A j \in 1..Len(calls) : calls[j].depth = calls[1].depth
  /\ \A j, k \in 1..Len(calls) : j # k => calls[j].point # calls[k].point

---------------------------------------------------------------------------
(* C1: at every level of the descent the chosen child lies, on each axis
   independently, on the plus side of the node's center iff the point's
   coordinate is strictly greater than the center's. *)
C1_ChildOnMatchingSide ==
  [][ \A p \in Procs :
        Selects(p) =>
          \A ax \in 1..3 :
            (heap[node'[p]].center[ax] > heap[node[p]].center[ax])
              <=> (point[p][ax] > heap[node[p]].center[ax]) ]_vars

(* C2: for a depth limit d >= 0 the node insert_point updates is at depth
   exactly d and is a leaf right after the insertion. *)
C2_UpdatedNodeAtDepthAndLeaf ==
  [][ \A p \in Procs :
        (Updates(p) /\ depth_limit[p] >= 0) =>
          /\ node[p] \in NodesAtDepth(heap, depth_limit[p])
          /\ heap'[node[p]].is_leaf ]_vars

(* C3: insert_point applies its log_odds update only to a node that is a
   leaf at that moment. *)
C3_UpdateOnlyOnLeaf ==
  [][ \A p \in Procs : Updates(p) => heap[node[p]].is_leaf ]_vars

(* C5: a node is a leaf iff all 8 child slots are absent, and is internal
   iff all 8 are populated. *)
C5_LeafIffNoChildren ==
  \A n \in Reachable(heap) :
    /\ heap[n].is_leaf <=> (\A k \in 1..8 : heap[n].children[k] = None)
    /\ ~heap[n].is_leaf <=> (\A k \in 1..8 : heap[n].children[k] # None)

C5_Witness ==
  /\ Idle
  /\ \E n \in Reachable(heap) : ~heap[n].is_leaf /\ n # root
  /\ \E n \in Reachable(heap) : heap[n].is_leaf

(* C6: the tree only grows: every node stays in the tree with its center
   and size, an internal node stays internal and keeps its 8 children, and
   subdivide is applied to leaves only. *)
C6_TreeOnlyGrows ==
  [][ /\ \A n \in Reachable(heap) :
           /\ n \in Reachable(heap')
           /\ heap'[n].center = heap[n].center
           /\ heap'[n].size = heap[n].size
           /\ ~heap[n].is_leaf =>
                (~heap'[n].is_leaf /\ heap'[n].children = heap[n].children)
      /\ \A p \in Procs :
           (pc[p] = "subdivide" /\ pc'[p] = "select") => heap[node[p]].is_leaf
    ]_vars

(* a second descent has gone through nodes subdivided by the first *)
C6_Witness ==
  /\ Idle
  /\ Len(calls) = 2
  /\ calls[1].depth = MaxDepth
  /\ calls[2].depth = MaxDepth
  /\ calls[1].point # calls[2].point
  /\ Cardinality(Reachable(heap)) > 1 + 8 * MaxDepth

(* C7 as stated: n distinct points with depth limit d give at most
   1 + n*d*7 nodes. *)
C7_AtMostSevenPerLevel ==
  (Idle /\ SameDepthDistinctPoints /\ calls[1].depth >= 0) =>
    count_octree_nodes(heap, root) <= 1 + Len(calls) * calls[1].depth * 7

(* C7 amended: n distinct points with depth limit d give at most
   1 + n*d*8 nodes (a subdivision creates 8 nodes). *)
C7_AtMostEightPerLevel ==
  (Idle /\ SameDepthDistinctPoints /\ calls[1].depth >= 0) =>
    count_octree_nodes(heap, root) <= 1 + Len(calls) * calls[1].depth * 8

(* one point: every level of the descent subdivides, the bound is met *)
C7_Witness ==
  /\ Idle
  /\ SameDepthDistinctPoints
  /\ calls[1].depth = MaxDepth
  /\ count_octree_nodes(heap, root) = 1 + Len(calls) * calls[1].depth * 8

(* C9: a call with depth limit 0 subdivides nothing and applies the update
   to the root; on a fresh root the tree stays a single leaf. *)
C9_DepthZeroUpdatesRoot ==
  [][ \A p \in Procs :
        (pc[p] # "idle" /\ depth_limit[p] = 0) =>
          /\ Updates(p)
          /\ node[p] = root
          /\ Shape(heap') = Shape(heap)
          /\ count_octree_nodes(heap', root) = count_octree_nodes(heap, root)
          /\ heap'[root].log_odds # heap[root].log_odds
               \/ heap[root].log_odds = CLAMP_MAX
          /\ \A n \in AllNodes(heap) \ {root} :
               heap'[n].log_odds = heap[n].log_odds
          /\ Len(calls) = 1 =>
               /\ heap'[root].is_leaf
               /\ \A k \in 1..8 : heap'[root].children[k] = None
               /\ count_octree_nodes(heap', root) = 1
               /\ heap'[root].log_odds = L_OCC ]_vars

C9_Witness ==
  /\ Idle
  /\ Len(calls) = 1
  /\ calls[1].depth = 0
  /\ heap[root].log_odds = L_OCC
  /\ count_octree_nodes(heap, root) = 1

(* C10: a call with a negative depth limit is rejected and leaves the tree
   as it was. *)
C10_NegativeDepthRejected ==
  [][ \A p \in Procs :
        (pc[p] # "idle" /\ depth_limit[p] < 0) => heap' = heap ]_vars

(* the value nearest to x within [CLAMP_MIN, CLAMP_MAX] *)
Clamped(x) ==
  IF x < CLAMP_MIN THEN CLAMP_MIN ELSE IF x > CLAMP_MAX THEN CLAMP_MAX ELSE x

(* C4: every node's log_odds lies in [CLAMP_MIN, CLAMP_MAX], and each update
   sets it to the clamped sum: L + L_OCC for an occupied observation,
   L + L_FREE for a free one. *)
C4_LogOddsClamped ==
  /\ [](\A n \in AllNodes(heap) :
          heap[n].log_odds >= CLAMP_MIN /\ heap[n].log_odds <= CLAMP_MAX)
  /\ [][ /\ \A p \in Procs :
              Updates(p) =>
                heap'[node[p]].log_odds
                  = Clamped(heap[node[p]].log_odds + L_OCC)
         /\ direct' # direct =>
              \E n \in AllNodes(heap) :
                /\ heap'[n].log_odds \in
                     { Clamped(heap[n].log_odds + L_OCC),
                       Clamped(heap[n].log_odds + L_FREE) }
                /\ \A m \in AllNodes(heap) \ {n} : heap'[m] = heap[m]
         /\ \A n \in AllNodes(heap) :
              heap'[n].log_odds \in
                { heap[n].log_odds,
                  Clamped(heap[n].log_odds + L_OCC),
                  Clamped(heap[n].log_odds + L_FREE) } ]_vars

(* both limits have been hit: free observations drove the root down to
   CLAMP_MIN, occupied ones drove the inserted leaf up to CLAMP_MAX *)
C4_Witness ==
  /\ Idle
  /\ Len(calls) = 1
  /\ calls[1].depth >= 1
  /\ node[1] # root
  /\ heap[root].log_odds = CLAMP_MIN
  /\ heap[node[1]].log_odds = CLAMP_MAX

(* C8: repeating one insertion k times keeps the shape of the tree as the
   first insertion left it, and the target's log_odds is
   min(k * L_OCC, CLAMP_MAX); once the clamp is reached nothing changes. *)
C8_RepeatedInsertIdempotent ==
  /\ []( (Idle /\ Len(calls) >= 1) =>
           /\ heap[node[1]].log_odds
                = (IF Len(calls) * L_OCC < CLAMP_MAX THEN Len(calls) * L_OCC
                                                     ELSE CLAMP_MAX)
           /\ \A n \in AllNodes(heap) \ {node[1]} : heap[n].log_odds = 0 )
  /\ [][ Len(calls) >= 2 =>
           /\ Shape(heap') = Shape(heap)
           /\ Len(heap') = Len(heap)
           /\ (\E p \in Procs : Updates(p) /\ heap[node[p]].log_odds = CLAMP_MAX)
                => heap' = heap ]_vars

C8_Witness ==
  /\ Idle
  /\ Len(calls) = MaxRepeat
  /\ calls[1].depth = MaxDepth
  /\ heap[node[1]].log_odds = CLAMP_MAX
  /\ (MaxRepeat - 1) * L_OCC > CLAMP_MAX

(* C11: the number of occupied leaves never exceeds the number of nodes,
   and the two are equal only for a root that was never subdivided and
   whose log_odds is positive. *)
C11_OccupiedAtMostNodes ==
  /\ count_octree_occupied_leaves(heap, root) <= count_octree_nodes(heap, root)
  /\ count_octree_occupied_leaves(heap, root) = count_octree_nodes(heap, root)
       => /\ heap[root].is_leaf
          /\ Len(heap) = 1
          /\ heap[root].log_odds > 0

(* the case of equality: a depth 0 insertion into the fresh root *)
C11_Witness ==
  /\ Idle
  /\ Len(calls) >= 1
  /\ count_octree_occupied_leaves(heap, root) = 1
  /\ count_octree_nodes(heap, root) = 1

---------------------------------------------------------------------------
(* Vocabulary of the dense grid's properties *)

(* the DenseVoxelGrid object exists *)
GridExists == stage \in {"build", "done", "octree", "end"}

(* this step is one iteration of _build_grid *)
Inserts == stage = "build" /\ gk' = gk + 1

(* both bbox arguments were supplied *)
BboxSupplied == input.bbox_center # Absent /\ input.bbox_size # Absent

IndexRange == (-(4 * BboxSize)) .. (4 * BboxSize)

(* floor(off / size): the integer q with q * size <= off < (q + 1) * size *)
FloorOf(off, size) ==
  CHOOSE q \in IndexRange : q * size <= off /\ off < (q + 1) * size

(* ceil(a / b) for b > 0: the least integer q with q * b >= a *)
CeilOf(a, b) ==
  CHOOSE q \in IndexRange : q * b >= a /\ (q - 1) * b < a

(* the cell of a point: component-wise floor((point - grid_min) / voxel_size) *)
CellOf(pt) ==
  [ax \in 1..3 |-> FloorOf(pt[ax] - grid.grid_min[ax], grid.voxel_size)]

(* the points _build_grid has inserted so far *)
Inserted == { j \in 1..Len(input.pts) : j <= gk }

(* C13: every inserted point increments the count of exactly one key, the
   component-wise floor of (point - grid_min) / voxel_size with
   grid_min = bbox_center - bbox_size / 2; the entry starts at 1 and no other
   entry changes.  With grid_min (-5,-5,-5) and voxel_size 1.0 the point
   (1,1,1) has key (6,6,6). *)
C13_OneKeyIncremented ==
  [][ Inserts =>
        LET pt  == input.pts[gk + 1]
            key == CellOf(pt)
        IN  /\ DOMAIN grid'.voxels = (DOMAIN grid.voxels) \cup {key}
            /\ grid'.voxels[key] =
                 (IF key \in DOMAIN grid.voxels THEN grid.voxels[key] + 1 ELSE 1)
            /\ \A k \in (DOMAIN grid.voxels) \ {key} :
                 grid'.voxels[k] = grid.voxels[k]
            /\ \A ax \in 1..3 :
                 2 * grid.grid_min[ax] = 2 * grid.bbox_center[ax] - grid.bbox_size
            /\ ( /\ BboxSupplied
                 /\ input.voxel_size = Unit
                 /\ pt = Halves(<<2, 2, 2>>) )
               => ( /\ grid.grid_min = << -5 * Unit, -5 * Unit, -5 * Unit >>
                    /\ key = <<6, 6, 6>> ) ]_vars

(* the scenario: grid_min (-5,-5,-5), voxel_size 1.0, the point (1,1,1) *)
C13_Witness ==
  /\ stage = "done"
  /\ BboxSupplied
  /\ input.voxel_size = Unit
  /\ input.pts = << Halves(<<2, 2, 2>>) >>
  /\ DOMAIN grid.voxels = { <<6, 6, 6>> }
  /\ grid.voxels[<<6, 6, 6>>] = 1

(* C14: total_points equals the number of points inserted, also when points
   lie outside the bounding region. *)
C14_TotalEqualsInput ==
  GridExists =>
    /\ get_total_points(grid) = gk
    /\ stage # "build" => get_total_points(grid) = Len(input.pts)

(* all MaxPts points are in, one of them outside the supplied region *)
C14_Witness ==
  /\ stage = "done"
  /\ BboxSupplied
  /\ Len(input.pts) = MaxPts
  /\ get_total_points(grid) = MaxPts
  /\ \E j \in 1..Len(input.pts), ax \in 1..3 :
       \/ input.pts[j][ax] < grid.grid_min[ax]
       \/ input.pts[j][ax] > grid.grid_max[ax]

(* C15: voxel_count <= total_points, with equality iff the inserted points
   fall into pairwise distinct cells. *)
C15_VoxelCountAtMostTotal ==
  GridExists =>
    /\ get_voxel_count(grid) <= get_total_points(grid)
    /\ get_voxel_count(grid) = get_total_points(grid)
         <=> \A j, k \in Inserted :
               j # k => CellOf(input.pts[j]) # CellOf(input.pts[k])

(* the same point inserted twice: voxel_count 1, total_points 2 *)
C15_Witness ==
  /\ stage = "done"
  /\ Len(input.pts) = 2
  /\ input.pts[1] = input.pts[2]
  /\ get_voxel_count(grid) = 1
  /\ get_total_points(grid) = 2

(* C16: every key of the mapping has a count >= 1, and no entry is removed
   or decremented. *)
C16_CountsPositiveAndGrowing ==
  /\ [](GridExists => \A k \in DOMAIN grid.voxels : grid.voxels[k] >= 1)
  /\ [][ (stage = "build") =>
           \A k \in DOMAIN grid.voxels :
             /\ k \in DOMAIN grid'.voxels
             /\ grid'.voxels[k] >= grid.voxels[k] ]_vars

(* an entry was created and later incremented beside another entry *)
C16_Witness ==
  /\ stage = "done"
  /\ get_voxel_count(grid) >= 2
  /\ \E k \in DOMAIN grid.voxels : grid.voxels[k] >= 2

(* C19: the bounding box of an empty point set is an error, not a
   min/max/extent, and so is a dense grid built from an empty point set
   without both bbox arguments. *)
C19_EmptyInputFails ==
  /\ (input.pts = <<>>) <=> ~bbox(input.pts).ok
  /\ (stage # "new" /\ input.pts = <<>> /\ ~BboxSupplied)
       => (stage = "ValueError" /\ grid = None)
  /\ (stage = "ValueError") => (input.pts = <<>> /\ ~BboxSupplied)

C19_Witness ==
  /\ stage = "ValueError"
  /\ input.pts = <<>>
  /\ input.bbox_center # Absent
  /\ input.bbox_size = Absent
  /\ bbox(input.pts).error = "ValueError"

(* C20 as stated: below grid_min the index is negative (-1 for an offset in
   (-voxel_size, 0)), beyond grid_max it is >= ceil(bbox_size / voxel_size). *)
C20_OutsideIndexAtLeastCeil ==
  (GridExists /\ BboxSupplied) =>
    \A j \in Inserted, ax \in 1..3 :
      LET pt  == input.pts[j]
          idx == point_to_voxel_index(grid, pt)
          off == pt[ax] - grid.grid_min[ax]
      IN  /\ idx \in DOMAIN grid.voxels
          /\ pt[ax] < grid.grid_min[ax] => idx[ax] < 0
          /\ (off < 0 /\ off > -grid.voxel_size) => idx[ax] = -1
          /\ pt[ax] > grid.grid_max[ax]
               => idx[ax] >= CeilOf(grid.bbox_size, grid.voxel_size)

(* C20 amended: beyond grid_max the index is >= floor(bbox_size /
   voxel_size). *)
C20_OutsideIndexAtLeastFloor ==
  (GridExists /\ BboxSupplied) =>
    \A j \in Inserted, ax \in 1..3 :
      LET pt  == input.pts[j]
          idx == point_to_voxel_index(grid, pt)
          off == pt[ax] - grid.grid_min[ax]
      IN  /\ idx \in DOMAIN grid.voxels
          /\ pt[ax] < grid.grid_min[ax] => idx[ax] < 0
          /\ (off < 0 /\ off > -grid.voxel_size) => idx[ax] = -1
          /\ pt[ax] > grid.grid_max[ax]
               => idx[ax] >= FloorOf(grid.bbox_size, grid.voxel_size)

(* a point below the region and a point beyond it are both in the grid, the
   latter in the last partial cell of a voxel_size that does not divide
   bbox_size *)
C20_Witness ==
  /\ stage = "done"
  /\ BboxSupplied
  /\ input.voxel_size = 3 * Unit
  /\ \E k \in DOMAIN grid.voxels : k[1] = -1
  /\ \E k \in DOMAIN grid.voxels :
       k[1] = 3 /\ k[1] < CeilOf(grid.bbox_size, grid.voxel_size)

---------------------------------------------------------------------------
(* Vocabulary of the properties of a whole build *)

(* the tree below n as a value: what the nodes hold, not which objects
   they are *)
RECURSIVE Tree(_, _)
Tree(h, n) ==
  [ center   |-> h[n].center,
    size     |-> h[n].size,
    log_odds |-> h[n].log_odds,
    is_leaf  |-> h[n].is_leaf,
    children |-> [k \in 1..8 |->
                    IF h[n].children[k] = None THEN <<>>
                    ELSE << Tree(h, h[n].children[k]) >>] ]

(* the orders a sequence of length n can be put in *)
Perms(n) == { f \in [1..n -> 1..n] : \A a, b \in 1..n : a # b => f[a] # f[b] }

Permute(seq, f) == [j \in 1..Len(seq) |-> seq[f[j]]]

(* C12: for a fixed region and resolution, building from any permutation
   of the points gives the same octree (shape and log_odds of every node)
   and the same cell-to-count mapping. *)
C12_OrderIrrelevant ==
  (stage = "end") =>
    \A f \in Perms(Len(input.pts)) :
      LET other == Permute(input.pts, f)
      IN  /\ Tree(build_octree(other, input.depth,
                               input.bbox_center[1], input.bbox_size[1]), root)
               = Tree(heap, root)
          /\ DenseVoxelGrid(other, input.voxel_size,
                            input.bbox_center, input.bbox_size).grid.voxels
               = grid.voxels

(* MaxPts different points, two of them in one leaf and in one cell *)
C12_Witness ==
  /\ stage = "end"
  /\ Len(input.pts) = MaxPts
  /\ \A j, k \in 1..Len(input.pts) : j # k => input.pts[j] # input.pts[k]
  /\ input.depth >= 1
  /\ \E n \in Reachable(heap) : heap[n].log_odds = 2 * L_OCC
  /\ \E n \in Reachable(heap) : heap[n].log_odds = L_OCC
  /\ \E k \in DOMAIN grid.voxels : grid.voxels[k] = 2

(* C17: root (0,0,0) of size 10.0, point (1,1,1), depth_limit 1: one
   subdivision into 8 children of size 5.0, the update on the child
   centered (2.5,2.5,2.5) with log_odds L_OCC, count_nodes 9,
   count_occupied_leaves 1. *)
C17_ScenarioOnePoint ==
  ( /\ stage = "end"
    /\ input.pts = << Halves(<<2, 2, 2>>) >>
    /\ input.depth = 1 )
  => /\ heap[root].center = <<0, 0, 0>>
     /\ heap[root].size = 10 * Unit
     /\ ~heap[root].is_leaf
     /\ Len(heap) = 9
     /\ \A k \in 1..8 :
          /\ heap[root].children[k] # None
          /\ heap[heap[root].children[k]].size = 5 * Unit
          /\ heap[heap[root].children[k]].is_leaf
     /\ node[1] \in ChildrenOf(heap, root)
     /\ heap[node[1]].center = Halves(<<5, 5, 5>>)
     /\ heap[node[1]].log_odds = L_OCC
     /\ \A n \in AllNodes(heap) \ {node[1]} : heap[n].log_odds = 0
     /\ report.n_nodes = 9
     /\ report.n_occ = 1
     /\ count_octree_nodes(heap, root) = 9
     /\ count_octree_occupied_leaves(heap, root) = 1

C17_Witness ==
  /\ stage = "end"
  /\ input.pts = << Halves(<<2, 2, 2>>) >>
  /\ input.depth = 1
  /\ report.n_nodes = 9

(* C18: the octree's memory estimate is 200 per node of the tree and the
   grid's is 50 per occupied cell, whatever bbox_size and voxel_size are;
   computing them changes neither structure. *)
C18_MemoryPerElement ==
  /\ []( /\ estimate_octree_memory(heap, root)
             = 200 * Cardinality(Reachable(heap))
         /\ estimate_octree_memory(heap, root)
             = 200 * count_octree_nodes(heap, root)
         /\ GridExists =>
              /\ estimate_memory_bytes(grid)
                   = 50 * Cardinality({ CellOf(input.pts[j]) : j \in Inserted })
              /\ estimate_memory_bytes(grid) = 50 * get_voxel_count(grid) )
  /\ [][ /\ (stage = "done" /\ stage' = "octree") =>
              /\ grid' = grid
              /\ heap' = heap
              /\ report'.dense_memory = 50 * report'.voxel_count
              /\ report'.voxel_count = get_voxel_count(grid)
         /\ (stage = "octree" /\ stage' = "end") =>
              /\ grid' = grid
              /\ heap' = heap
              /\ report'.octree_memory = 200 * report'.n_nodes
              /\ report'.n_nodes = Cardinality(Reachable(heap)) ]_vars

(* both estimates were reported, and the grid's is not the dense figure
   50 * ceil(bbox_size / voxel_size)^3 *)
C18_Witness ==
  /\ stage = "end"
  /\ report.n_nodes > 1
  /\ report.octree_memory = 200 * report.n_nodes
  /\ report.voxel_count >= 2
  /\ report.dense_memory = 50 * report.voxel_count
  /\ report.dense_memory
       # 50 * CeilOf(grid.bbox_size, grid.voxel_size)
            * CeilOf(grid.bbox_size, grid.voxel_size)
            * CeilOf(grid.bbox_size, grid.voxel_size)

---------------------------------------------------------------------------
(* Whole calls: insert_point from its entry to its return as one step, as
   the sequential caller of build_octree sees it *)
InsertCall(pt, d) ==
  /\ Idle
  /\ Len(calls) < MaxCalls
  /\ heap' = insert_point(heap, root, pt, d)
  /\ calls' = Append(calls, [point |-> pt, depth |-> d])
  /\ UNCHANGED <<pc, node, point, depth_limit, i, direct, gvars>>

NextCalls == \E pt \in Points, d \in Depths : InsertCall(pt, d)

SpecCalls == Init /\ [][NextCalls]_vars

(* the nodes count_octree_occupied_leaves pops, in the order it pops them *)
RECURSIVE OccupiedVisits(_, _, _)
OccupiedVisits(h, stack, visited) ==
  IF stack = <<>> THEN visited
  ELSE LET n    == stack[Len(stack)]
           rest == SubSeq(stack, 1, Len(stack) - 1)
       IN  OccupiedVisits(h,
                          IF h[n].is_leaf THEN rest
                          ELSE PushChildren(rest, h[n].children, 1),
                          Append(visited, n))

(* visualize.py: collect_voxels, the recursive depth-first traversal *)
RECURSIVE collect_voxels(_, _, _)

RECURSIVE CollectChildren(_, _, _, _)

collect_voxels(h, n, voxels) ==
  IF h[n].is_leaf
  THEN IF h[n].log_odds > 0
       THEN Append(voxels, << h[n].center, h[n].size >>)
       ELSE voxels
  ELSE CollectChildren(h, h[n].children, 1, voxels)

(* "for c in node.children: if c is not None: collect_voxels(c, voxels)" *)
CollectChildren(h, ch, k, voxels) ==
  IF k > 8 THEN voxels
  ELSE CollectChildren(h, ch, k + 1,
                       IF ch[k] # None THEN collect_voxels(h, ch[k], voxels)
                                       ELSE voxels)

---------------------------------------------------------------------------
(* Vocabulary of the properties of the counters *)

(* the loop of count_octree_occupied_leaves taking the oldest entry
   instead of the newest: a breadth-first traversal *)
RECURSIVE OccupiedBreadthFirst(_, _, _)
OccupiedBreadthFirst(h, queue, count) ==
  IF queue = <<>> THEN count
  ELSE LET n    == queue[1]
           rest == SubSeq(queue, 2, Len(queue))
       IN  IF h[n].is_leaf
           THEN OccupiedBreadthFirst(h, rest,
                  IF h[n].log_odds > 0 THEN count + 1 ELSE count)
           ELSE OccupiedBreadthFirst(h,
                  PushChildren(rest, h[n].children, 1), count)

(* the leaves of the tree with log_odds > 0 *)
OccupiedLeaves(h) ==
  { n \in Reachable(h) : h[n].is_leaf /\ h[n].log_odds > 0 }

(* the internal nodes of the tree *)
InternalNodes(h) == { n \in Reachable(h) : ~h[n].is_leaf }

(* C21: count_octree_occupied_leaves returns the number of nodes of the
   tree that are leaves with log_odds > 0; it visits every node of the tree
   exactly once; an internal node with a positive log_odds is not counted;
   the breadth-first order and the recursive depth-first traversal of
   collect_voxels give the same number. *)
C21_OccupiedLeavesExact ==
  LET visits == OccupiedVisits(heap, <<root>>, <<>>)
      count  == count_octree_occupied_leaves(heap, root)
  IN  /\ count = Cardinality(OccupiedLeaves(heap))
      /\ { visits[j] : j \in 1..Len(visits) } = Reachable(heap)
      /\ Len(visits) = Cardinality(Reachable(heap))
      /\ OccupiedBreadthFirst(heap, <<root>>, 0) = count
      /\ Len(collect_voxels(heap, root, <<>>)) = count

(* the root was updated as a leaf and subdivided by a later call: its
   positive log_odds is not counted, the later call's leaf is *)
C21_Witness ==
  /\ Len(calls) = 2
  /\ calls[1].depth = 0
  /\ calls[2].depth = MaxDepth
  /\ ~heap[root].is_leaf
  /\ heap[root].log_odds = L_OCC
  /\ count_octree_occupied_leaves(heap, root) = 1
  /\ Cardinality(Reachable(heap)) = 1 + 8 * MaxDepth

---------------------------------------------------------------------------
(* Two callers of insert_point on one tree.  stage tells whether the
   callers run unsynchronized ("interleaved": any caller may take the next
   statement) or hold a lock on the subtree they descend into for the whole
   call ("serialized": every insertion starts at the root, so the subtrees
   of any two insertions overlap and the lock is the root's).  Callers are
   numbered in the order they enter. *)
InitRace ==
  /\ heap = << OctreeNode(RootCenter, RootSize) >>
  /\ pc = [p \in Procs |-> "idle"]
  /\ node = [p \in Procs |-> root]
  /\ point = [p \in Procs |-> <<0, 0, 0>>]
  /\ depth_limit = [p \in Procs |-> 0]
  /\ i = [p \in Procs |-> 0]
  /\ calls = <<>>
  /\ direct = 0
  /\ input = None
  /\ grid = None
  /\ stage \in {"interleaved", "serialized"}
  /\ gk = 0
  /\ report = None

(* caller p enters insert_point(root, pt, d), once *)
RaceCall(p, pt, d) ==
  /\ p = Len(calls) + 1
  /\ stage = "serialized" => Idle
  /\ Call(p, pt, d)

NextRace ==
  \E p \in Procs :
    \/ \E pt \in Points, d \in Depths : RaceCall(p, pt, d)
    \/ CheckLeaf(p)
    \/ Subdivide(p)
    \/ Select(p)
    \/ Update(p)

SpecRace == InitRace /\ [][NextRace]_vars

---------------------------------------------------------------------------
(* Vocabulary of the properties of two callers *)

(* both callers have entered and returned *)
BothReturned == Idle /\ Len(calls) = Cardinality(Procs)

(* the trees the two insertions give when one runs after the other *)
SequentialTrees ==
  LET fresh == << OctreeNode(RootCenter, RootSize) >>
      a     == calls[1]
      b     == calls[2]
  IN  { Tree(insert_point(insert_point(fresh, root, a.point, a.depth),
                          root, b.point, b.depth), root),
        Tree(insert_point(insert_point(fresh, root, b.point, b.depth),
                          root, a.point, a.depth), root) }

(* nodes constructed and no longer in the tree: children that a second
   subdivide of their parent replaced *)
Dropped(h) == AllNodes(h) \ Reachable(h)

(* the log_odds held by the leaves of the tree *)
LeafLogOdds(h) ==
  LET leaves == { n \in Reachable(h) : h[n].is_leaf }
  IN  [ n \in leaves |-> h[n].log_odds ]

(* C22: with insertions serialized per overlapping subtree no subdivide
   replaces children and the final tree is the result of a sequential order
   of the two insertions.  (Unsynchronized, there is an interleaving in
   which both callers subdivide the same node and the final tree differs
   from every sequential order: C22_Witness.) *)
C22_SerializedIsSequential ==
  (stage = "serialized") =>
    /\ Dropped(heap) = {}
    /\ \A p \in Procs : pc[p] = "subdivide" => heap[node[p]].is_leaf
    /\ BothReturned => Tree(heap, root) \in SequentialTrees

(* unsynchronized: both callers found the root a leaf and subdivided it,
   the second subdivide dropped the first's 8 children, the first caller's
   update went to a dropped node, and the final tree, with one occupied
   leaf, is the result of no sequential order *)
C22_Witness ==
  /\ stage = "interleaved"
  /\ BothReturned
  /\ calls[1].depth = 1
  /\ calls[2].depth = 1
  /\ Cardinality(Dropped(heap)) = 8
  /\ \E n \in Dropped(heap) : heap[n].log_odds = L_OCC
  /\ Tree(heap, root) \notin SequentialTrees
  /\ count_octree_occupied_leaves(heap, root) = 1
  /\ \A t \in SequentialTrees :
       \E k \in 1..8 : t.children[k][1].log_odds > 0
                       /\ heap[heap[root].children[k]].log_odds = 0

---------------------------------------------------------------------------
(* Vocabulary of the geometry *)

Abs(x) == IF x < 0 THEN -x ELSE x

(* pt is strictly inside the root cube *)
StrictlyInside(pt) ==
  \A ax \in 1..3 : 2 * Abs(pt[ax] - RootCenter[ax]) < RootSize

(* pt is in the closed cube of node n *)
CellContains(h, n, pt) ==
  \A ax \in 1..3 : 2 * Abs(pt[ax] - h[n].center[ax]) <= h[n].size

(* C23: for a point strictly inside the root and a depth limit d >= 0 the
   node insert_point updates has size root.size / 2^d and contains the
   point: |point - center| <= size / 2 on every axis. *)
C23_UpdatedCellContainsPoint ==
  [][ \A p \in Procs :
        (Updates(p) /\ depth_limit[p] >= 0 /\ StrictlyInside(point[p])) =>
          /\ heap[node[p]].size * (2 ^ depth_limit[p]) = RootSize
          /\ CellContains(heap, node[p], point[p]) ]_vars

(* the size part of C23 alone *)
UpdatedCellHasSize ==
  [][ \A p \in Procs :
        (Updates(p) /\ depth_limit[p] >= 0) =>
          heap[node[p]].size * (2 ^ depth_limit[p]) = RootSize ]_vars

---------------------------------------------------------------------------
(* Vocabulary of the properties of whole calls *)

(* this step is a call of insert_point *)
Returns == calls' # calls

(* the depth limit of the call this step makes *)
CalledDepth == calls'[Len(calls')].depth

(* the nodes the call of this step adds to the tree *)
Added == count_octree_nodes(heap', root) - count_octree_nodes(heap, root)

NodeCountOnePlusEightInternal ==
  /\ count_octree_nodes(heap, root) = 1 + 8 * Cardinality(InternalNodes(heap))
  /\ count_octree_nodes(heap, root) % 8 = 1

(* C24: count_octree_nodes = 1 + 8 * (number of internal nodes), so it is
   1 modulo 8, in every state of the tree; a call of insert_point with
   depth limit d adds a multiple of 8 nodes, at most 8 * d. *)
C24_NodeCountStepsOfEight ==
  /\ []NodeCountOnePlusEightInternal
  /\ [][ Returns => /\ Added % 8 = 0
                    /\ Added >= 0
                    /\ Added <= 8 * CalledDepth ]_vars

(* C24 without the calls the specification forbids (depth_limit < 0) *)
NodeCountStepsOfEightValidDepth ==
  /\ []NodeCountOnePlusEightInternal
  /\ [][ (Returns /\ CalledDepth >= 0) =>
           /\ Added % 8 = 0
           /\ Added >= 0
           /\ Added <= 8 * CalledDepth ]_vars

(* C25: over any sequence of insert_point calls, with any depth limits,
   count_octree_occupied_leaves does not decrease from one call to the
   next and is at least 1 after the first call. *)
C25_OccupiedNeverDecreases ==
  /\ [](calls # <<>> => count_octree_occupied_leaves(heap, root) >= 1)
  /\ [][ Returns => count_octree_occupied_leaves(heap', root)
                      >= count_octree_occupied_leaves(heap, root) ]_vars

(* a call with a larger depth limit has subdivided the occupied leaf of the
   call before it: that node keeps its positive log_odds as an internal
   node, and the count is still 1 *)
C25_Witness ==
  /\ Len(calls) = 2
  /\ calls[1].depth = 1
  /\ calls[2].depth = 2
  /\ \E n \in NodesAtDepth(heap, 1) :
       ~heap[n].is_leaf /\ heap[n].log_odds = L_OCC
  /\ Cardinality(OccupiedLeaves(heap)) = 1
  /\ count_octree_occupied_leaves(heap, root) = 1

=============================================================================
